---- MODULE Spec2Model ----
(***************************************************************************)
(* A model of mikkerlo/ftpd (src/main.py): the control-channel framer,     *)
(* the session context, the command dispatcher and the command handlers.   *)
(*                                                                         *)
(* Python strings and byte strings are sequences of one-character strings. *)
(* Optional values (None or a value) are sequences of length 0 or 1.       *)
(* Two specifications are given:                                           *)
(*   Spec      the server process: listen(), Connection.process() and the  *)
(*             client that feeds the control channel;                      *)
(*   SpecUnit  the handler functions called directly on an FTPContext      *)
(*             whose fields are drawn from the dataclass's field types,    *)
(*             which is how the handlers' bodies are exercised where the   *)
(*             dispatcher never reaches them.                              *)
(***************************************************************************)
EXTENDS Integers, Sequences, FiniteSets, TLC

\* ------------------------------------------------------------------ bounds
\* commands a client sends on one control connection
MaxCmds == 2
\* network reads return 1..MaxChunk bytes, or everything that is in flight
MaxChunk == 1
\* handler calls made on one context under SpecUnit
MaxCalls == 2

\* ------------------------------------------------------- program constants
BUFF_SIZE == 4096

ASCII == <<"A","S","C","I","I">>
BINARY == <<"B","i","n","a","r","y">>

\* ------------------------------------------------------------ optional values
None == <<>>
Some(v) == <<v>>

\* ------------------------------------------------------------ Python strings
CR == "\r"
LF == "\n"
CRLF == <<CR, LF>>
\* a byte >= 0x80: bytes.decode('ascii') rejects it
NonAscii == "0x80"

Lowercase == <<"a","b","c","d","e","f","g","h","i","j","k","l","m",
               "n","o","p","q","r","s","t","u","v","w","x","y","z">>
Uppercase == <<"A","B","C","D","E","F","G","H","I","J","K","L","M",
               "N","O","P","Q","R","S","T","U","V","W","X","Y","Z">>

\* str.upper() on one character
UpperChar(c) ==
  IF \E i \in 1..26 : Lowercase[i] = c
  THEN Uppercase[CHOOSE i \in 1..26 : Lowercase[i] = c]
  ELSE c

\* str.upper()
upper(s) == [i \in 1..Len(s) |-> UpperChar(s[i])]

\* the characters str.strip() and str.split() treat as whitespace
Whitespace == {" ", "\t", CR, LF}

RECURSIVE lstrip(_)
lstrip(s) ==
  IF s # <<>> /\ Head(s) \in Whitespace THEN lstrip(Tail(s)) ELSE s

RECURSIVE rstrip(_)
rstrip(s) ==
  IF s # <<>> /\ s[Len(s)] \in Whitespace
  THEN rstrip(SubSeq(s, 1, Len(s) - 1))
  ELSE s

\* str.strip()
strip(s) == rstrip(lstrip(s))

\* str.split(sep) with a one-character separator: empty fields are kept,
\* and the result always has at least one field
RECURSIVE split_sep(_, _)
split_sep(s, sep) ==
  IF \E i \in 1..Len(s) : s[i] = sep
  THEN LET i == CHOOSE k \in 1..Len(s) :
                  s[k] = sep /\ \A j \in 1..(k - 1) : s[j] # sep
       IN  <<SubSeq(s, 1, i - 1)>> \o split_sep(SubSeq(s, i + 1, Len(s)), sep)
  ELSE <<s>>

\* str.split() without a separator: runs of whitespace separate the
\* fields and no empty field is produced
RECURSIVE split(_)
split(s) ==
  LET t == lstrip(s) IN
  IF t = <<>> THEN <<>>
  ELSE IF \E i \in 1..Len(t) : t[i] \in Whitespace
       THEN LET i == CHOOSE k \in 1..Len(t) :
                       t[k] \in Whitespace
                       /\ \A j \in 1..(k - 1) : t[j] \notin Whitespace
            IN  <<SubSeq(t, 1, i - 1)>> \o split(SubSeq(t, i + 1, Len(t)))
       ELSE <<t>>

\* sep.join(parts) for a sequence of strings
RECURSIVE join(_, _)
join(sep, parts) ==
  IF parts = <<>> THEN <<>>
  ELSE IF Len(parts) = 1 THEN parts[1]
  ELSE parts[1] \o sep \o join(sep, Tail(parts))

\* str.startswith(prefix)
startswith(s, prefix) ==
  Len(prefix) <= Len(s) /\ SubSeq(s, 1, Len(prefix)) = prefix

\* bytes.decode('ascii') succeeds
IsAsciiBytes(s) == \A i \in 1..Len(s) : s[i] # NonAscii

Digits == <<"0","1","2","3","4","5","6","7","8","9">>
IsDigit(c) == \E i \in 1..10 : Digits[i] = c
DigitVal(c) == (CHOOSE i \in 1..10 : Digits[i] = c) - 1

RECURSIVE DecimalVal(_)
DecimalVal(s) ==
  IF s = <<>> THEN 0
  ELSE DecimalVal(SubSeq(s, 1, Len(s) - 1)) * 10 + DigitVal(s[Len(s)])

\* int(s) does not raise ValueError: surrounding whitespace, an optional
\* sign, at least one digit
IsIntLiteral(s) ==
  LET t == strip(s)
      u == IF t # <<>> /\ Head(t) \in {"+", "-"} THEN Tail(t) ELSE t
  IN  u # <<>> /\ \A i \in 1..Len(u) : IsDigit(u[i])

\* int(s) for a string that IsIntLiteral
int(s) ==
  LET t == strip(s)
      u == IF t # <<>> /\ Head(t) \in {"+", "-"} THEN Tail(t) ELSE t
  IN  IF t # <<>> /\ Head(t) = "-" THEN 0 - DecimalVal(u) ELSE DecimalVal(u)

\* ------------------------------------------------------------------ os.path
\* the process's working directory, os.getcwd(); the server never changes it
ProcessCwd == <<"/","a","b">>

\* os.path.isabs
isabs(path) == startswith(path, <<"/">>)

\* os.path.join(a, b)
path_join(a, b) ==
  IF isabs(b) THEN b
  ELSE IF a = <<>> \/ a[Len(a)] = "/" THEN a \o b
  ELSE a \o <<"/">> \o b

\* the loop of posixpath.normpath over the components
RECURSIVE norm_comps(_, _, _)
norm_comps(comps, new_comps, initial_slashes) ==
  IF comps = <<>> THEN new_comps
  ELSE LET comp == Head(comps) IN
       IF comp = <<>> \/ comp = <<".">>
       THEN norm_comps(Tail(comps), new_comps, initial_slashes)
       ELSE IF comp # <<".", ".">>
               \/ (initial_slashes = 0 /\ new_comps = <<>>)
               \/ (new_comps # <<>> /\ new_comps[Len(new_comps)] = <<".", ".">>)
       THEN norm_comps(Tail(comps), Append(new_comps, comp), initial_slashes)
       ELSE IF new_comps # <<>>
       THEN norm_comps(Tail(comps), SubSeq(new_comps, 1, Len(new_comps) - 1),
                       initial_slashes)
       ELSE norm_comps(Tail(comps), new_comps, initial_slashes)

\* posixpath.normpath
normpath(path) ==
  IF path = <<>> THEN <<".">>
  ELSE LET initial_slashes ==
             IF ~startswith(path, <<"/">>) THEN 0
             ELSE IF startswith(path, <<"/","/">>)
                     /\ ~startswith(path, <<"/","/","/">>) THEN 2
             ELSE 1
           comps == norm_comps(split_sep(path, "/"), <<>>, initial_slashes)
           joined == join(<<"/">>, comps)
           result == IF initial_slashes = 2 THEN <<"/","/">> \o joined
                     ELSE IF initial_slashes = 1 THEN <<"/">> \o joined
                     ELSE joined
       IN  IF result = <<>> THEN <<".">> ELSE result

\* os.path.abspath
abspath(path) ==
  normpath(IF isabs(path) THEN path ELSE path_join(ProcessCwd, path))

\* the path names a directory that certainly exists: the working directory
\* or one of its ancestors
IsKnownDirectory(path) ==
  path = <<"/">> \/ path = ProcessCwd \/ startswith(ProcessCwd, path \o <<"/">>)

\* --------------------------------------------------------------- the state
VARIABLES
  pc,           \* where the serving process is: "accept", "process", "crashed",
                \* and under SpecUnit "unit", "raised"
  exc,          \* the exception that ended the process or the call, or "none"
  ctx,          \* Connection.ctx, the FTPContext of the connection
  buffer,       \* InputSocketConnection.buffer
  buffer_pos,   \* InputSocketConnection.buffer_pos
  cur_command,  \* the accumulator of _get_command
  net,          \* bytes the client has sent and the server has not yet received
  peer_eof,     \* the server has read the end of the client's stream
  nsent,        \* command lines sent by the client (calls made, under SpecUnit)
  out,          \* what the server has written to the control channel
  closed,       \* the server has closed the control socket
  conns,        \* the outbound data sockets opened so far
  opened,       \* the files opened so far
  last,         \* the last command dispatched and the state it started from
  stream,       \* under SpecFramer: every byte the client writes
  lines         \* under SpecFramer: the lines _get_command has returned

vars == <<pc, exc, ctx, buffer, buffer_pos, cur_command, net, peer_eof, nsent,
          out, closed, conns, opened, last, stream, lines>>

\* ------------------------------------------------- control-channel responses
\* A response is the text given to say(), as a template and the value an
\* f-string puts in its place, and the line terminator say() adds.
Text(t) == [text |-> t, arg |-> <<>>]
Format(t, a) == [text |-> t, arg |-> a]

\* str(x) of an optional string, as an f-string formats it
str(opt) == IF opt = None THEN <<"N","o","n","e">> ELSE opt[1]

R220 == Text("220 (Epic mikkerlo's server)")
R215 == Text("215 UNIX Type: L8")
R200Noop ==
  Text("200 We have started to count useful tasks in our network course.")
R221 == Text("221 Goodbye.")
R200Type(mode) == Format("200 Switching to {ctx.mode} mode.", mode)
R200Stru == Text("200 Structure set to F.")
R504Stru == Text("504 1975 have ringed the bell.")
R504Port == Text("504 Wrong ip or port format.")
R425 == Text("425 Use PORT or PASV first.")
R550 == Text("550 Failed to open file.")
R150Stor == Text("150 Here comes the train.")
R150Retr == Text("150 Here comes the file.")
R226Stor == Text("226 STOR file ok.")
R226Retr == Text("226 RETR file ok.")
R500(command) == Format("500 Unrecognised {ctx.command} command.", str(command))
R502 == Text("502 Not implemented.")

\* ------------------------------------------------------------ handler worlds
\* What a handler reads and changes: the context, the control channel, the
\* data sockets and files, and the exception it has raised, if any.  A
\* statement after a raised exception is not executed.
Ok(w) == w.exc = "none"
Raise(w, e) == IF Ok(w) THEN [w EXCEPT !.exc = e] ELSE w

\* InputSocketConnection.say: text[-2:] is a str and never equals the bytes
\* b'\r\n', so the terminator is always added; sendall on a socket this
\* process has closed raises OSError
say(w, text) ==
  IF ~Ok(w) THEN w
  ELSE IF w.closed THEN Raise(w, "OSError")
  ELSE [w EXCEPT !.out = Append(@, [text |-> text.text, arg |-> text.arg,
                                    end |-> CRLF])]

\* InputSocketConnection.close
close(w) ==
  IF ~Ok(w) THEN w
  ELSE IF w.closed THEN Raise(w, "OSError")
  ELSE [w EXCEPT !.closed = TRUE]

\* auth: the handler of USER and PASS
auth(w) == w

\* check_auth
check_auth(c) == c

\* auth_required(f): the decorator builds a wrapper and returns f itself, so
\* the decorated handler called on w gives fw, the result of f on w
auth_required(fw, w) == fw

\* args_length(l)(f) called on w; fw is the result of f on w
args_length(l, fw, w) ==
  IF Len(w.ctx.args) # l
  THEN LET w1 == say(w, R500(w.ctx.command))
       IN  IF Ok(w1)
           THEN [w1 EXCEPT !.ctx.command = None, !.ctx.args = <<>>]
           ELSE w1
  ELSE fw

syst_command(w) == auth_required(say(w, R215), w)

noop_command(w) == auth_required(say(w, R200Noop), w)

quit_command(w) == auth_required(close(say(w, R221)), w)

type_body(w) ==
  LET typed == upper(w.ctx.args[1]) IN
  IF typed = <<"A">> \/ typed = <<"I">>
  THEN LET mode == IF typed = <<"A">> THEN ASCII ELSE BINARY
       IN  say([w EXCEPT !.ctx.mode = mode], R200Type(mode))
  ELSE w

type_command(w) ==
  auth_required(args_length(1, type_body(w), w), w)

stru_body(w) ==
  IF upper(w.ctx.args[1]) = <<"F">> THEN say(w, R200Stru) ELSE say(w, R504Stru)

stru_command(w) ==
  auth_required(args_length(1, stru_body(w), w), w)

\* the loop of port_command over map(int, raw_ip_info): int() is applied
\* field by field, so the responses for the fields before a bad one are sent
RECURSIVE port_loop(_, _)
port_loop(w, fields) ==
  IF fields = <<>> \/ ~Ok(w) THEN w
  ELSE IF ~IsIntLiteral(Head(fields)) THEN Raise(w, "ValueError")
  ELSE LET i == int(Head(fields))
       IN  port_loop(IF 0 <= i /\ i <= 255 THEN say(w, R504Port) ELSE w,
                     Tail(fields))

port_body(w) ==
  LET raw_ip_info == split_sep(w.ctx.args[1], ",")
      w1 == IF Len(raw_ip_info) # 6 THEN say(w, R504Port) ELSE w
      w2 == port_loop(w1, raw_ip_info)
      \* '.'.join of a list of int: TypeError unless the list is empty,
      \* and str.split never returns an empty list
      w3 == IF raw_ip_info = <<>>
            THEN IF Ok(w2) THEN [w2 EXCEPT !.ctx.ip = Some(<<>>)] ELSE w2
            ELSE Raise(w2, "TypeError")
      w4 == IF ~Ok(w3) THEN w3
            ELSE IF Len(raw_ip_info) < 6 THEN Raise(w3, "IndexError")
            ELSE [w3 EXCEPT !.ctx.port =
                    Some(int(raw_ip_info[5]) * 256 + int(raw_ip_info[6]))]
  IN  w4

port_command(w) ==
  auth_required(args_length(1, port_body(w), w), w)

\* ------------------------------------------------------------ data transfers
\* What the world outside decides during a transfer: whether the announced
\* endpoint accepts the connection, whether the file system lets the file be
\* opened, the bytes the peer sends, and whether the stream ends cleanly.
Envs ==
  [connect : BOOLEAN, open : BOOLEAN, data : {<<>>, <<"x">>}, eof : BOOLEAN]

\* socket.socket(...) followed by connect((ctx.ip, ctx.port))
connect(w, env) ==
  IF ~Ok(w) THEN w
  ELSE LET w1 == [w EXCEPT !.conns =
                     Append(@, [ip |-> w.ctx.ip, port |-> w.ctx.port,
                                connected |-> env.connect])]
       IN  IF env.connect THEN w1 ELSE Raise(w1, "ConnectionRefusedError")

\* open(abs_path, 'wb') and the receive loop that fills the file
store(w, abs_path, env) ==
  IF ~Ok(w) THEN w
  ELSE IF IsKnownDirectory(abs_path) THEN Raise(w, "IsADirectoryError")
  ELSE IF ~env.open THEN Raise(w, "PermissionError")
  ELSE LET w1 == [w EXCEPT !.opened =
                     Append(@, [path |-> abs_path, mode |-> "wb",
                                written |-> env.data])]
       IN  IF env.eof THEN w1 ELSE Raise(w1, "ConnectionResetError")

stor_body(w, env) ==
  IF w.ctx.port = None \/ w.ctx.ip = None THEN say(w, R425)
  ELSE LET raw_path == join(<<" ">>, w.ctx.args)
           abs_path == abspath(raw_path)
       IN  IF ~startswith(w.ctx.cwd, abs_path) THEN say(w, R550)
           ELSE LET w1 == say(w, R150Stor)
                    w2 == connect(w1, env)
                    w3 == store(w2, abs_path, env)
                    \* ctx.control_connection('226 STOR file ok.') calls
                    \* an object that is not callable
                    w4 == Raise(w3, "TypeError")
                IN  IF Ok(w4)
                    THEN [w4 EXCEPT !.ctx.ip = None, !.ctx.port = None]
                    ELSE w4

stor_command(w, env) == auth_required(stor_body(w, env), w)

retr_body(w, env) ==
  IF w.ctx.port = None \/ w.ctx.ip = None THEN say(w, R425)
  ELSE LET raw_path == join(<<" ">>, w.ctx.args)
           abs_path == abspath(path_join(w.ctx.cwd, raw_path))
       IN  IF ~startswith(w.ctx.cwd, abs_path) THEN say(w, R550)
           ELSE LET w1 == say(w, R150Retr)
                    w2 == connect(w1, env)
                    \* fin.read(4096) before fin is bound
                    w3 == Raise(w2, "UnboundLocalError")
                    w4 == Raise(w3, "TypeError")
                IN  IF Ok(w4)
                    THEN [w4 EXCEPT !.ctx.port = None, !.ctx.ip = None]
                    ELSE w4

retr_command(w, env) == auth_required(retr_body(w, env), w)

\* ------------------------------------------------------------ the framer
\* bytearray[-2:] == b'\r\n'
EndsWithCRLF(cur) ==
  Len(cur) >= 2 /\ cur[Len(cur) - 1] = CR /\ cur[Len(cur)] = LF

\* _get_command as far as it runs on the bytes already in the buffer: bytes
\* move from the buffer to the accumulator until it ends in CR LF or the
\* buffer is used up
RECURSIVE _get_bytes(_, _, _)
_get_bytes(buf, pos, cur) ==
  IF EndsWithCRLF(cur) \/ pos >= Len(buf)
  THEN [buffer_pos |-> pos, cur_command |-> cur]
  ELSE _get_bytes(buf, pos + 1, Append(cur, buf[pos + 1]))

\* the sizes of the byte string one recv(BUFF_SIZE) may return
ChunkSizes(avail) ==
  {n \in 1..avail : n <= BUFF_SIZE /\ (n <= MaxChunk \/ n = avail)}

\* ------------------------------------------------------------ the dispatcher
USER == <<"U","S","E","R">>
PASS == <<"P","A","S","S">>
SYST == <<"S","Y","S","T">>
NOOP == <<"N","O","O","P">>
QUIT == <<"Q","U","I","T">>
TYPE == <<"T","Y","P","E">>
STRU == <<"S","T","R","U">>
PORT == <<"P","O","R","T">>
STOR == <<"S","T","O","R">>
RETR == <<"R","E","T","R">>

\* the keys of the dictionary commands in _process_command
commands == {USER, PASS, SYST, NOOP, QUIT, TYPE, PORT, STOR, RETR}

\* raw_command.decode('ascii').strip()
command_of(raw_command) == strip(raw_command)

\* command.split()
command_line_of(raw_command) == split(command_of(raw_command))

\* the key _process_command looks up in commands: the whole stripped line
lookup_key(raw_command) == command_of(raw_command)

\* ------------------------------------------------------------ the client
\* the command lines a client sends, without the CR LF that ends them
CommandLines ==
  { <<"U","S","E","R">>,
    <<"S","Y","S","T">>,
    <<"N","O","O","P">>,
    <<"n","o","o","p">>,
    <<"Q","U","I","T">>,
    <<"T","Y","P","E">>,
    <<"T","Y","P","E"," ","I">>,
    <<"S","T","R","U"," ","F">>,
    <<"P","O","R","T">>,
    <<"P","O","R","T"," ","1",",","2",",","3",",","4",",","5",",","6">>,
    <<"P","O","R","T"," ","1",",","2">>,
    <<"S","T","O","R">>,
    <<"S","T","O","R"," ","a">>,
    <<"R","E","T","R">>,
    <<"F","O","O">>,
    <<>>,
    <<NonAscii>> }

\* ------------------------------------------------------------ the session
\* FTPContext as Connection.__init__ builds it
NewContext ==
  [username |-> None, is_logged |-> FALSE, cwd |-> abspath(<<".">>),
   mode |-> ASCII, ip |-> None, port |-> None, command |-> None, args |-> <<>>]

\* no command dispatched yet.  The record of a dispatched command holds the
\* handler that ran, the line's first token in upper case and the tokens
\* after it, and the state the command started from: the context, the
\* number of responses, data sockets and files so far, whether the control
\* socket was already closed, and the handler of the command before it; and
\* the exception the command raised, "none" when _process_command returned.
NoCommand ==
  [handler |-> "none", verb |-> <<>>, args |-> <<>>,
   ctx |-> NewContext, out |-> 0, conns |-> 0, opened |-> 0,
   closed |-> FALSE, prev |-> "none", raised |-> "none"]

\* the world a handler is called in
World(c) ==
  [ctx |-> c, out |-> out, closed |-> closed, conns |-> conns,
   opened |-> opened, exc |-> "none"]

\* the handler of listen() around conn.process(): only ClosedSocketException
\* is caught, and the handler calls Connection.close, which does not exist;
\* every other exception leaves listen() as it is
listen_except(e) == IF e = "ClosedSocketException" THEN "AttributeError" ELSE e

Init ==
  /\ pc = "accept"
  /\ exc = "none"
  /\ ctx = NewContext
  /\ buffer = <<>>
  /\ buffer_pos = 0
  /\ cur_command = <<>>
  /\ net = <<>>
  /\ peer_eof = FALSE
  /\ nsent = 0
  /\ out = <<>>
  /\ closed = FALSE
  /\ conns = <<>>
  /\ opened = <<>>
  /\ last = NoCommand
  /\ stream = <<>>
  /\ lines = <<>>

\* listen(): accept a connection, build the Connection, and process() sends
\* the greeting
Accept ==
  /\ pc = "accept"
  /\ LET w == say(World(NewContext), R220)
     IN  /\ ctx' = w.ctx
         /\ out' = w.out
  /\ pc' = "process"
  /\ buffer' = <<>>
  /\ buffer_pos' = 0
  /\ cur_command' = <<>>
  /\ UNCHANGED <<exc, net, peer_eof, nsent, closed, conns, opened, last,
                 stream, lines>>

\* the client writes one command line to the control channel
ClientSend ==
  /\ pc = "process"
  /\ ~peer_eof
  /\ nsent < MaxCmds
  /\ \E line \in CommandLines : net' = net \o line \o CRLF
  /\ nsent' = nsent + 1
  /\ UNCHANGED <<pc, exc, ctx, buffer, buffer_pos, cur_command, peer_eof, out,
                 closed, conns, opened, last, stream, lines>>

\* _get_command needs a byte and the buffer is used up
NeedsRecv ==
  /\ pc = "process"
  /\ ~EndsWithCRLF(cur_command)
  /\ buffer_pos >= Len(buffer)

\* recv, had _get_command started its accumulator again after every read
recv_restart(n) ==
  LET data == SubSeq(net, 1, n)
      g == _get_bytes(data, 0, <<>>)
  IN  /\ buffer' = data
      /\ buffer_pos' = g.buffer_pos
      /\ cur_command' = g.cur_command
      /\ net' = SubSeq(net, n + 1, Len(net))

\* self.buffer = self.socket_data.recv(BUFF_SIZE) returning the first n bytes
\* in flight, and _get_command going on with them
recv(n) ==
  LET data == SubSeq(net, 1, n)
      g == _get_bytes(data, 0, cur_command)
  IN  /\ buffer' = data
      /\ buffer_pos' = g.buffer_pos
      /\ cur_command' = g.cur_command
      /\ net' = SubSeq(net, n + 1, Len(net))

\* _get_byte: recv returns some bytes, and _get_command goes on with them
Recv ==
  /\ NeedsRecv
  /\ ~closed
  /\ \E n \in ChunkSizes(Len(net)) : recv(n)
  /\ UNCHANGED <<pc, exc, ctx, peer_eof, nsent, out, closed, conns, opened, last,
                 stream, lines>>

\* _get_byte: the client has shut down its sending side with nothing left in
\* flight, and recv returns b''; self.say() is called without its argument,
\* which raises TypeError before ClosedSocketException is reached
RecvEof ==
  /\ NeedsRecv
  /\ ~closed
  /\ net = <<>>
  /\ peer_eof' = TRUE
  /\ buffer' = <<>>
  /\ buffer_pos' = 0
  /\ pc' = "crashed"
  /\ exc' = listen_except("TypeError")
  /\ UNCHANGED <<ctx, cur_command, net, nsent, out, closed, conns, opened, last,
                 stream, lines>>

\* _get_byte: recv on the control socket after quit_command has closed it
RecvClosed ==
  /\ NeedsRecv
  /\ closed
  /\ pc' = "crashed"
  /\ exc' = listen_except("OSError")
  /\ UNCHANGED <<ctx, buffer, buffer_pos, cur_command, net, peer_eof, nsent, out,
                 closed, conns, opened, last, stream, lines>>

\* a whole command line is in the accumulator
HasCommand == pc = "process" /\ EndsWithCRLF(cur_command)

\* raw_command.decode('ascii') fails
DecodeError ==
  /\ HasCommand
  /\ ~IsAsciiBytes(cur_command)
  /\ pc' = "crashed"
  /\ exc' = listen_except("UnicodeDecodeError")
  /\ last' = [NoCommand EXCEPT !.handler = "UnicodeDecodeError", !.ctx = ctx,
                !.out = Len(out), !.conns = Len(conns), !.opened = Len(opened),
                !.closed = closed, !.prev = last.handler,
                !.raised = "UnicodeDecodeError"]
  /\ UNCHANGED <<ctx, buffer, buffer_pos, cur_command, net, peer_eof, nsent, out,
                 closed, conns, opened, stream, lines>>

\* command_line[0] of a line without a token
EmptyLine ==
  /\ HasCommand
  /\ IsAsciiBytes(cur_command)
  /\ command_line_of(cur_command) = <<>>
  /\ pc' = "crashed"
  /\ exc' = listen_except("IndexError")
  /\ last' = [NoCommand EXCEPT !.handler = "IndexError", !.ctx = ctx,
                !.out = Len(out), !.conns = Len(conns), !.opened = Len(opened),
                !.closed = closed, !.prev = last.handler,
                !.raised = "IndexError"]
  /\ UNCHANGED <<ctx, buffer, buffer_pos, cur_command, net, peer_eof, nsent, out,
                 closed, conns, opened, stream, lines>>

\* a line that decodes and has a first token
Parsed ==
  /\ HasCommand
  /\ IsAsciiBytes(cur_command)
  /\ command_line_of(cur_command) # <<>>

\* the next call of _get_command, had the bytes left in the buffer been dropped
next_command_drop ==
  [buffer_pos |-> Len(buffer), cur_command |-> <<>>]

\* the next call of _get_command: a new accumulator, filled from the bytes
\* still in the buffer
next_command == _get_bytes(buffer, buffer_pos, <<>>)

\* the rest of _process_command once the handler, or the 502 branch, has run
\* and left the world w; process() then calls _process_command again, which
\* starts a new accumulator from the bytes still in the buffer
Dispatched(h, w) ==
  /\ ctx' = w.ctx
  /\ out' = w.out
  /\ closed' = w.closed
  /\ conns' = w.conns
  /\ opened' = w.opened
  /\ last' = [handler |-> h,
              verb |-> upper(command_line_of(cur_command)[1]),
              args |-> Tail(command_line_of(cur_command)),
              ctx |-> ctx, out |-> Len(out), conns |-> Len(conns),
              opened |-> Len(opened), closed |-> closed, prev |-> last.handler,
              raised |-> w.exc]
  /\ IF Ok(w)
     THEN LET g == next_command
          IN  /\ pc' = "process"
              /\ exc' = "none"
              /\ buffer_pos' = g.buffer_pos
              /\ cur_command' = g.cur_command
     ELSE /\ pc' = "crashed"
          /\ exc' = listen_except(w.exc)
          /\ UNCHANGED <<buffer_pos, cur_command>>
  /\ UNCHANGED <<buffer, net, peer_eof, nsent, stream, lines>>

DoAuth ==
  /\ Parsed
  /\ lookup_key(cur_command) \in {USER, PASS}
  /\ Dispatched("auth", auth(World(ctx)))

DoSyst ==
  /\ Parsed
  /\ lookup_key(cur_command) = SYST
  /\ Dispatched("syst_command", syst_command(World(ctx)))

DoNoop ==
  /\ Parsed
  /\ lookup_key(cur_command) = NOOP
  /\ Dispatched("noop_command", noop_command(World(ctx)))

DoQuit ==
  /\ Parsed
  /\ lookup_key(cur_command) = QUIT
  /\ Dispatched("quit_command", quit_command(World(ctx)))

DoType ==
  /\ Parsed
  /\ lookup_key(cur_command) = TYPE
  /\ Dispatched("type_command", type_command(World(ctx)))

DoPort ==
  /\ Parsed
  /\ lookup_key(cur_command) = PORT
  /\ Dispatched("port_command", port_command(World(ctx)))

DoStor ==
  /\ Parsed
  /\ lookup_key(cur_command) = STOR
  /\ \E env \in Envs : Dispatched("stor_command", stor_command(World(ctx), env))

DoRetr ==
  /\ Parsed
  /\ lookup_key(cur_command) = RETR
  /\ \E env \in Envs : Dispatched("retr_command", retr_command(World(ctx), env))

\* the else branch, had it answered as the argument-count check does
not_implemented_500(w) == say(w, R500(w.ctx.command))

\* the else branch of _process_command
not_implemented(w) == say(w, R502)

NotImplemented ==
  /\ Parsed
  /\ lookup_key(cur_command) \notin commands
  /\ Dispatched("not_implemented", not_implemented(World(ctx)))

Next ==
  \/ Accept
  \/ ClientSend
  \/ Recv
  \/ RecvEof
  \/ RecvClosed
  \/ DecodeError
  \/ EmptyLine
  \/ DoAuth
  \/ DoSyst
  \/ DoNoop
  \/ DoQuit
  \/ DoType
  \/ DoPort
  \/ DoStor
  \/ DoRetr
  \/ NotImplemented

Spec == Init /\ [][Next]_vars

\* ------------------------------------------------ handlers called directly
\* the contexts a handler is called on: every field as Connection.__init__
\* sets it, but for the login flag and the endpoint a PORT is meant to store
UnitEndpoint == [ip |-> Some(<<"1",".","2",".","3",".","4">>), port |-> Some(1286)]

UnitContexts ==
  { [NewContext EXCEPT !.is_logged = l, !.ip = e.ip, !.port = e.port] :
      l \in BOOLEAN, e \in {[ip |-> None, port |-> None], UnitEndpoint} }

\* the argument lists the handlers are called with
NoArgs == { <<>>, << <<"a">> >> }
TypeArgs == { <<>>, << <<"A">> >>, << <<"i">> >>, << <<"Q">> >>,
              << <<"A">>, <<"b">> >> }
StruArgs == { <<>>, << <<"f">> >>, << <<"R">> >> }
PortArgs ==
  { <<>>,
    << <<"1",",","2",",","3",",","4",",","5",",","6">> >>,
    << <<"1","2","7",",","0",",","0",",","1",",","2","0","0",",","1","0">> >>,
    << <<"1",",","2">> >>,
    << <<"1",",","2",",","3",",","4",",","5",",","2","5","6">> >>,
    << <<"3","0","0",",","x">> >>,
    << <<"x">> >> }
PathArgs ==
  { <<>>, << <<"a">> >>, << <<".",".">> >>, << <<"/","a">> >>,
    << <<"/","a","b","/","a">> >>, << <<"/","c">> >>, << <<"a">>, <<"b">> >> }

InitUnit ==
  /\ pc = "unit"
  /\ exc = "none"
  /\ ctx \in UnitContexts
  /\ buffer = <<>>
  /\ buffer_pos = 0
  /\ cur_command = <<>>
  /\ net = <<>>
  /\ peer_eof = FALSE
  /\ nsent = 0
  /\ out = <<>>
  /\ closed = FALSE
  /\ conns = <<>>
  /\ opened = <<>>
  /\ last = NoCommand
  /\ stream = <<>>
  /\ lines = <<>>

\* the caller's context for a command: the verb and its arguments filled in
Called(verb, args) == [ctx EXCEPT !.command = Some(verb), !.args = args]

\* the state after a direct call of handler h that left the world w
Returned(h, verb, args, w) ==
  /\ ctx' = w.ctx
  /\ out' = w.out
  /\ closed' = w.closed
  /\ conns' = w.conns
  /\ opened' = w.opened
  /\ last' = [handler |-> h, verb |-> verb, args |-> args, ctx |-> Called(verb, args),
              out |-> Len(out), conns |-> Len(conns), opened |-> Len(opened),
              closed |-> closed, prev |-> last.handler, raised |-> w.exc]
  /\ pc' = IF Ok(w) THEN "unit" ELSE "raised"
  /\ exc' = w.exc
  /\ nsent' = nsent + 1
  /\ UNCHANGED <<buffer, buffer_pos, cur_command, net, peer_eof, stream, lines>>

CanCall == pc = "unit" /\ nsent < MaxCalls

CallAuth ==
  /\ CanCall
  /\ \E verb \in {USER, PASS}, args \in NoArgs :
       Returned("auth", verb, args, auth(World(Called(verb, args))))

CallSyst ==
  /\ CanCall
  /\ \E args \in NoArgs :
       Returned("syst_command", SYST, args, syst_command(World(Called(SYST, args))))

CallNoop ==
  /\ CanCall
  /\ \E args \in NoArgs :
       Returned("noop_command", NOOP, args, noop_command(World(Called(NOOP, args))))

CallQuit ==
  /\ CanCall
  /\ \E args \in NoArgs :
       Returned("quit_command", QUIT, args, quit_command(World(Called(QUIT, args))))

CallType ==
  /\ CanCall
  /\ \E args \in TypeArgs :
       Returned("type_command", TYPE, args, type_command(World(Called(TYPE, args))))

CallStru ==
  /\ CanCall
  /\ \E args \in StruArgs :
       Returned("stru_command", STRU, args, stru_command(World(Called(STRU, args))))

CallPort ==
  /\ CanCall
  /\ \E args \in PortArgs :
       Returned("port_command", PORT, args, port_command(World(Called(PORT, args))))

CallStor ==
  /\ CanCall
  /\ \E args \in PathArgs, env \in Envs :
       Returned("stor_command", STOR, args,
                stor_command(World(Called(STOR, args)), env))

CallRetr ==
  /\ CanCall
  /\ \E args \in PathArgs, env \in Envs :
       Returned("retr_command", RETR, args,
                retr_command(World(Called(RETR, args)), env))

NextUnit ==
  \/ CallAuth
  \/ CallSyst
  \/ CallNoop
  \/ CallQuit
  \/ CallType
  \/ CallStru
  \/ CallPort
  \/ CallStor
  \/ CallRetr

SpecUnit == InitUnit /\ [][NextUnit]_vars

\* ------------------------------------------------ the framer on its own
\* InputSocketConnection alone: a client writes a byte stream, recv returns
\* it cut in any way, and _get_command is called again and again.
MaxStream == 6

\* the bytes of the streams: a letter and the two bytes of the terminator
StreamBytes == {"a", CR, LF}

Streams == UNION { [1..n -> StreamBytes] : n \in 0..MaxStream }

InitFramer ==
  /\ pc = "process"
  /\ exc = "none"
  /\ ctx = NewContext
  /\ buffer = <<>>
  /\ buffer_pos = 0
  /\ cur_command = <<>>
  /\ net \in Streams
  /\ peer_eof = FALSE
  /\ nsent = 0
  /\ out = <<>>
  /\ closed = FALSE
  /\ conns = <<>>
  /\ opened = <<>>
  /\ last = NoCommand
  /\ stream = net
  /\ lines = <<>>

\* _get_byte: recv returns any non-empty prefix of the bytes in flight, up to
\* BUFF_SIZE of them
RecvAny ==
  /\ NeedsRecv
  /\ ~closed
  /\ \E n \in 1..Len(net) : n <= BUFF_SIZE /\ recv(n)
  /\ UNCHANGED <<pc, exc, ctx, peer_eof, nsent, out, closed, conns, opened, last,
                 stream, lines>>

\* _get_command returns the accumulator, and the next call starts a new one
\* from the bytes still in the buffer
GetCommand ==
  /\ HasCommand
  /\ lines' = Append(lines, cur_command)
  /\ LET g == next_command
     IN  /\ buffer_pos' = g.buffer_pos
         /\ cur_command' = g.cur_command
  /\ UNCHANGED <<pc, exc, ctx, buffer, net, peer_eof, nsent, out, closed, conns,
                 opened, last, stream>>

NextFramer ==
  \/ RecvAny
  \/ GetCommand
  \/ RecvEof

SpecFramer == InitFramer /\ [][NextFramer]_vars

\* ------------------------------------------------------------------ claims
\* what the last command wrote to the control channel
Responses == SubSeq(out, last.out + 1, Len(out))

\* a response as it stands in out
Sent(t) == [text |-> t.text, arg |-> t.arg, end |-> CRLF]

\* a command line was parsed and dispatched (to a handler or to the 502 branch)
WasDispatched == last.handler \notin {"none", "UnicodeDecodeError", "IndexError"}

\* the last command opened no data socket and no file
NothingOpened == Len(conns) = last.conns /\ Len(opened) = last.opened

TransferHandlers == {"stor_command", "retr_command"}

\* the path of the last command, resolved against the session directory and
\* canonicalized
CanonicalPath == abspath(path_join(last.ctx.cwd, join(<<" ">>, last.args)))

\* the path lies inside the directory root (root itself or a descendant)
InsideRoot(path, root) ==
  path = root \/ startswith(path, IF root = <<"/">> THEN root ELSE root \o <<"/">>)

\* a PORT argument of exactly six decimal fields, each in 0..255
IsDecimal(f) == f # <<>> /\ \A i \in 1..Len(f) : IsDigit(f[i])
ValidDescriptor(d) ==
  LET f == split_sep(d, ",")
  IN  Len(f) = 6 /\ \A i \in 1..6 : IsDecimal(f[i]) /\ DecimalVal(f[i]) <= 255

\* the 5xx responses of the server
Texts5xx ==
  { R500(None).text, R502.text, R504Port.text, R504Stru.text, R550.text }

\* the argument count each verb's handler is said to require
RequiredArgs(verb) == IF verb \in {TYPE, STRU, PORT, STOR, RETR} THEN 1 ELSE 0

ProtectedVerbs == {SYST, NOOP, QUIT, TYPE, STRU, PORT, STOR, RETR}
ProtectedHandlers ==
  { "syst_command", "noop_command", "quit_command", "type_command",
    "stru_command", "port_command", "stor_command", "retr_command" }

\* the handler the command table gives a verb
HandlerOf(verb) ==
  CASE verb \in {USER, PASS} -> "auth"
    [] verb = SYST -> "syst_command"
    [] verb = NOOP -> "noop_command"
    [] verb = QUIT -> "quit_command"
    [] verb = TYPE -> "type_command"
    [] verb = STRU -> "stru_command"
    [] verb = PORT -> "port_command"
    [] verb = STOR -> "stor_command"
    [] verb = RETR -> "retr_command"
    [] OTHER -> "not_implemented"

\* C1: while no endpoint is pending, a STOR or RETR command is answered with
\* exactly "425 Use PORT or PASV first." and opens no data socket and no file.
C1_TransferNeedsPort ==
  (/\ WasDispatched
   /\ ~last.closed
   /\ last.verb \in {STOR, RETR}
   /\ (last.ctx.ip = None \/ last.ctx.port = None))
  => (Responses = <<Sent(R425)>> /\ NothingOpened)

C4_BadPortRejected ==
  (/\ WasDispatched
   /\ ~last.closed
   /\ last.verb = PORT
   /\ Len(last.args) = 1
   /\ ~ValidDescriptor(last.args[1]))
  => (/\ Responses = <<Sent(R504Port)>>
      /\ ctx.ip = last.ctx.ip
      /\ ctx.port = last.ctx.port
      /\ last.raised = "none")

\* C5: a PORT command with six decimal fields h1,h2,h3,h4,p1,p2 in 0..255
\* completes without an error and without a 5xx response, and leaves the
\* pending endpoint ip = h1.h2.h3.h4, port = p1*256 + p2.
C5_PortStoresEndpoint ==
  (/\ WasDispatched
   /\ ~last.closed
   /\ last.verb = PORT
   /\ Len(last.args) = 1
   /\ ValidDescriptor(last.args[1]))
  => LET f == split_sep(last.args[1], ",")
     IN  /\ last.raised = "none"
         /\ \A i \in 1..Len(Responses) : Responses[i].text \notin Texts5xx
         /\ ctx.ip = Some(join(<<".">>, SubSeq(f, 1, 4)))
         /\ ctx.port = Some(DecimalVal(f[5]) * 256 + DecimalVal(f[6]))

\* C6: a command of a verb that requires K arguments and carries another
\* number of them is answered with exactly "500 Unrecognised <VERB> command.",
\* and the session state is unchanged.
C6_ArgCountEnforced ==
  (/\ WasDispatched
   /\ ~last.closed
   /\ last.verb \in ProtectedVerbs
   /\ Len(last.args) # RequiredArgs(last.verb))
  => (/\ Responses = <<Sent(R500(Some(last.verb)))>>
      /\ ctx = last.ctx)

\* C7: in a session that is not authenticated, no handler of a protected verb
\* runs, and the command is not answered with the 500 response of the
\* argument-count check.
C7_AuthFirst ==
  (/\ WasDispatched
   /\ ~last.closed
   /\ last.verb \in ProtectedVerbs
   /\ ~last.ctx.is_logged)
  => (/\ last.handler \notin ProtectedHandlers
      /\ \A i \in 1..Len(Responses) : Responses[i].text # R500(None).text)

\* C8: a USER or PASS command is accepted whatever its arguments, and the
\* session is authenticated after it.
C8_UserPassAuthenticate ==
  (/\ WasDispatched
   /\ ~last.closed
   /\ last.verb \in {USER, PASS})
  => (last.handler = "auth" /\ last.raised = "none" /\ ctx.is_logged)

\* C9: a command line whose first token, in any letter case, is a verb of the
\* command table runs that verb's handler, with or without arguments after
\* it, and is never answered "502 Not implemented.".
C9_VerbDispatch ==
  (/\ WasDispatched
   /\ ~last.closed
   /\ last.verb \in commands)
  => (/\ last.handler = HandlerOf(last.verb)
      /\ \A i \in 1..Len(Responses) : Responses[i] # Sent(R502))

FirstCRLF(s) ==
  LET at == {i \in 1..(Len(s) - 1) : s[i] = CR /\ s[i + 1] = LF}
  IN  IF at = {} THEN 0 ELSE CHOOSE i \in at : \A j \in at : i <= j

\* the stream is one command line followed by CR LF, with no CR LF inside
OneLine(s) == Len(s) >= 2 /\ FirstCRLF(s) = Len(s) - 1

\* C11: for a stream that is one command line L followed by CR LF, however
\* the bytes are cut into reads, the line the framer returns is L CR LF, the
\* line it returns when all bytes arrive in a single read, and the command
\* parsed from it is the same.
C11_CutInvariant ==
  (OneLine(stream) /\ lines # <<>>)
  => (/\ lines = <<stream>>
      /\ lines[1] = _get_bytes(stream, 0, <<>>).cur_command
      /\ command_of(lines[1]) = command_of(_get_bytes(stream, 0, <<>>).cur_command)
      /\ command_line_of(lines[1]) =
           command_line_of(_get_bytes(stream, 0, <<>>).cur_command))

\* C11 happens: a line of several bytes has been returned whose last read
\* was the single byte LF, the cut between CR and LF
C11_Witness ==
  /\ OneLine(stream)
  /\ Len(stream) >= 4
  /\ lines = <<stream>>
  /\ buffer = <<LF>>

\* C12: QUIT is answered "221 Goodbye." and the control channel is closed,
\* and once it is closed no further command line of the session is decoded
\* or dispatched, also when its bytes arrived in the read that brought QUIT.
C12_QuitEndsSession ==
  /\ (last.handler = "quit_command" /\ ~last.closed)
       => (Responses = <<Sent(R221)>> /\ closed)
  /\ ~last.closed

\* C13: once a read on the control channel has returned zero bytes, the
\* session has ended on the connection-closed signal, which listen() handles:
\* no other exception has ended the process, and the control channel is
\* closed.
C13_PeerClose ==
  peer_eof => (/\ exc = "none"
               /\ pc # "crashed"
               /\ closed)

\* the preliminary responses of the transfer verbs
Texts150 == { R150Stor.text, R150Retr.text }

\* C14: every command line that is dispatched while the control channel is
\* open is answered, before the next one is read, by exactly one response,
\* which a transfer verb may precede with one 150 line.
C14_OneResponse ==
  (WasDispatched /\ ~last.closed)
  => \/ Len(Responses) = 1 /\ Responses[1].text \notin Texts150
     \/ /\ last.handler \in TransferHandlers
        /\ Len(Responses) = 2
        /\ Responses[1].text \in Texts150
        /\ Responses[2].text \notin Texts150

\* the last command opened a data socket and the connection was refused, or
\* the copy over it failed
DataChannelFailed ==
  /\ Len(conns) > last.conns
  /\ \/ ~conns[Len(conns)].connected
     \/ last.raised \in {"ConnectionRefusedError", "ConnectionResetError"}

\* the transfer-failure responses (425/426) among the server's texts
Texts42x == { R425.text }

TransferInsideRoot ==
  /\ last.handler \in TransferHandlers
  /\ last.ctx.ip # None
  /\ last.ctx.port # None
  /\ InsideRoot(CanonicalPath, last.ctx.cwd)
  /\ CanonicalPath # last.ctx.cwd

C17_ServerSurvives == pc # "crashed" /\ exc = "none"

\* the mode a TYPE argument names, None when it names none
ModeOf(arg) ==
  IF upper(arg) = <<"A">> THEN Some(ASCII)
  ELSE IF upper(arg) = <<"I">> THEN Some(BINARY)
  ELSE None

\* C18: the mode is ASCII or BINARY in every state; a command other than
\* TYPE leaves it as it was; a TYPE command with the single argument A or I,
\* in either case, sets the mode it names and is answered with exactly
\* "200 Switching to <mode> mode."; a TYPE command with any other single
\* argument changes no field of the session state and gets no 200 response.
C18_TypeSetsMode ==
  /\ ctx.mode \in {ASCII, BINARY}
  /\ (WasDispatched /\ last.verb # TYPE) => ctx.mode = last.ctx.mode
  /\ (WasDispatched /\ ~last.closed /\ last.verb = TYPE /\ Len(last.args) = 1)
     => IF ModeOf(last.args[1]) # None
        THEN /\ ctx.mode = ModeOf(last.args[1])[1]
             /\ Responses = <<Sent(R200Type(ctx.mode))>>
        ELSE /\ ctx = last.ctx
             /\ \A i \in 1..Len(Responses) :
                  Responses[i].text # R200Type(ASCII).text

\* C19: a STRU command with the single argument F, in either case, is
\* answered with exactly "200 Structure set to F.", and with any other
\* single argument with exactly one 504 response; the session state is as it
\* was before the command.
C19_Stru ==
  (WasDispatched /\ ~last.closed /\ last.verb = STRU /\ Len(last.args) = 1)
  => (/\ ctx = last.ctx
      /\ IF upper(last.args[1]) = <<"F">>
         THEN Responses = <<Sent(R200Stru)>>
         ELSE Responses = <<Sent(R504Stru)>>)

\* the successive CR LF terminated segments of a byte stream
RECURSIVE Segments(_)
Segments(s) ==
  IF FirstCRLF(s) = 0 THEN <<>>
  ELSE <<SubSeq(s, 1, FirstCRLF(s) + 1)>>
         \o Segments(SubSeq(s, FirstCRLF(s) + 2, Len(s)))

\* the concatenation of a sequence of byte strings
RECURSIVE Flatten(_)
Flatten(ss) == IF ss = <<>> THEN <<>> ELSE Head(ss) \o Flatten(Tail(ss))

\* C20: however the stream is cut into reads, the lines the framer has
\* returned are the first CR LF terminated segments of the stream, in order,
\* and no byte is lost or duplicated: the returned lines, the accumulator,
\* the unread rest of the buffer and the bytes still in flight make up the
\* stream.
C20_NoLossNoDup ==
  /\ Len(lines) <= Len(Segments(stream))
  /\ lines = SubSeq(Segments(stream), 1, Len(lines))
  /\ Flatten(lines) \o cur_command
       \o SubSeq(buffer, buffer_pos + 1, Len(buffer)) \o net = stream

\* C20 happens: one read brought the whole stream, which holds two lines,
\* the second of them not empty, and both have been returned
C20_Witness ==
  /\ buffer = stream
  /\ Len(lines) = 2
  /\ Len(lines[2]) > 2
  /\ Flatten(lines) = stream

====
